---------------------------- MODULE Spec2Model ----------------------------
(***************************************************************************)
(* Soft Dice losses of src/dice_loss.py: SoftDiceLossV1, SoftDiceLossV2    *)
(* with its hand-written autograd function SoftDiceLossV2Func, and the     *)
(* multi-class GeneralizedSoftDiceLoss and BatchSoftDiceLoss.              *)
(*                                                                         *)
(* Numbers are exact extended rationals <<n, d>> (d > 0 in lowest terms;   *)
(* d = 0 stands for +inf <<1,0>>, -inf <<-1,0>> and nan <<0,0>>), so the   *)
(* model states the arithmetic the code performs without float32 rounding. *)
(* A logit x is represented by its odds e^x, so sigmoid is exact.          *)
(* Tensors are records [shape, data, err]; data holds the elements in      *)
(* row-major order; err # "" marks the exception an operation ended in.    *)
(***************************************************************************)
EXTENDS Integers, Sequences, FiniteSets, TLC

(***************************************************************************)
(* Extended rational arithmetic                                            *)
(***************************************************************************)
Abs(x) == IF x < 0 THEN -x ELSE x

Sign(x) == IF x < 0 THEN -1 ELSE IF x > 0 THEN 1 ELSE 0

RECURSIVE GCD(_, _)
GCD(a, b) == IF b = 0 THEN a ELSE GCD(b, a % b)

Norm(n, d) ==
    IF d = 0 THEN <<Sign(n), 0>>
    ELSE LET s == IF d < 0 THEN -1 ELSE 1
             g == GCD(Abs(n), Abs(d))
         IN  <<(s * n) \div g, (s * d) \div g>>

Rat(n, d) == Norm(n, d)

R(k) == <<k, 1>>

NaN == <<0, 0>>

IsFinite(a) == a[2] # 0

IsNaN(a) == a = NaN

RNeg(a) == <<-a[1], a[2]>>

RAdd(a, b) ==
    IF IsFinite(a) /\ IsFinite(b) THEN Norm(a[1] * b[2] + b[1] * a[2], a[2] * b[2])
    ELSE IF IsNaN(a) \/ IsNaN(b) THEN NaN
    ELSE IF IsFinite(a) THEN b
    ELSE IF IsFinite(b) THEN a
    ELSE IF a = b THEN a ELSE NaN

RSub(a, b) == RAdd(a, RNeg(b))

RMul(a, b) ==
    IF IsFinite(a) /\ IsFinite(b) THEN Norm(a[1] * b[1], a[2] * b[2])
    ELSE IF IsNaN(a) \/ IsNaN(b) THEN NaN
    ELSE <<Sign(a[1]) * Sign(b[1]), 0>>

RDiv(a, b) ==
    IF IsNaN(a) \/ IsNaN(b) THEN NaN
    ELSE IF IsFinite(a) /\ IsFinite(b) THEN Norm(a[1] * b[2], a[2] * b[1])
    ELSE IF IsFinite(a) THEN R(0)
    ELSE IF IsFinite(b) THEN <<a[1] * (IF b[1] < 0 THEN -1 ELSE 1), 0>>
    ELSE NaN

RECURSIVE RPow(_, _)
RPow(a, k) == IF k = 0 THEN R(1) ELSE RMul(a, RPow(a, k - 1))

RLess(a, b) == IsFinite(a) /\ IsFinite(b) /\ a[1] * b[2] < b[1] * a[2]

RPos(a) == (IsFinite(a) /\ a[1] > 0) \/ a = <<1, 0>>

(***************************************************************************)
(* Tensors: the part of the torch substrate the losses call.  data holds   *)
(* the elements in row-major order.                                        *)
(***************************************************************************)
\* The operations below bind their operands with \in {...}: TLC then evaluates
\* each operand once, where a LET or a parameter is evaluated at every use.
Sole(S) == CHOOSE x \in S : TRUE

Tensor(shape, data) == [shape |-> shape, data |-> data, err |-> ""]

Err(e) == [shape |-> <<>>, data |-> <<>>, err |-> e]

IsErr(t) == t.err # ""

RECURSIVE Numel(_)
Numel(shape) == IF Len(shape) = 0 THEN 1 ELSE Head(shape) * Numel(Tail(shape))

Full(shape, v) == Tensor(shape, [k \in 1..Numel(shape) |-> v])

\* a python number used as an operand broadcasts as a 0-d tensor
Scalar(v) == Tensor(<<>>, <<v>>)

\* the coordinates (0-based) of the element at row-major offset q
RECURSIVE Unravel(_, _)
Unravel(q, shape) ==
    IF Len(shape) = 0 THEN <<>>
    ELSE LET m == Numel(Tail(shape))
         IN  <<q \div m>> \o Unravel(q % m, Tail(shape))

\* size of dimension i of shape s once s is right-aligned to rank r
PadDim(s, r, i) == IF i <= r - Len(s) THEN 1 ELSE s[i - (r - Len(s))]

Rank2(s1, s2) == IF Len(s1) > Len(s2) THEN Len(s1) ELSE Len(s2)

\* a mutant of Broadcastable: sizes must be equal, a size of 1 is not expanded
BroadcastableNoExpand(s1, s2) ==
    \A i \in 1..Rank2(s1, s2) :
        \/ i <= Rank2(s1, s2) - Len(s1)
        \/ i <= Rank2(s1, s2) - Len(s2)
        \/ PadDim(s1, Rank2(s1, s2), i) = PadDim(s2, Rank2(s1, s2), i)

\* torch's rule for the operand shapes of an elementwise operation
Broadcastable(s1, s2) ==
    \A i \in 1..Rank2(s1, s2) :
        LET d1 == PadDim(s1, Rank2(s1, s2), i)
            d2 == PadDim(s2, Rank2(s1, s2), i)
        IN  d1 = d2 \/ d1 = 1 \/ d2 = 1

BShape(s1, s2) ==
    [i \in 1..Rank2(s1, s2) |->
        LET d1 == PadDim(s1, Rank2(s1, s2), i)
            d2 == PadDim(s2, Rank2(s1, s2), i)
        IN  IF d1 = 1 THEN d2 ELSE d1]

\* offset in a tensor of shape ts of the element that offset q of the
\* broadcast shape rs reads: a dimension of size 1 has stride 0
RECURSIVE SrcOff(_, _, _, _, _)
SrcOff(q, rs, ts, i, stride) ==
    IF i = 0 \/ i - (Len(rs) - Len(ts)) < 1 THEN 0
    ELSE LET j == i - (Len(rs) - Len(ts))
         IN  (IF ts[j] = 1 THEN 0 ELSE (q % rs[i]) * stride)
             + SrcOff(q \div rs[i], rs, ts, i - 1, stride * ts[j])

\* element of t seen at position k (1-based, row-major) of the shape rs
At(t, rs, k) ==
    IF t.shape = rs THEN t.data[k]
    ELSE t.data[1 + SrcOff(k - 1, rs, t.shape, Len(rs), 1)]

\* out-of-place elementwise binary operation with broadcasting
Map2(Op(_, _), a0, b0) ==
    Sole({IF IsErr(a) THEN a
          ELSE IF IsErr(b) THEN b
          ELSE IF ~Broadcastable(a.shape, b.shape) THEN Err("shape_mismatch")
          ELSE Sole({Tensor(rs, [k \in 1..Numel(rs) |-> Op(At(a, rs, k), At(b, rs, k))]) :
                     rs \in {BShape(a.shape, b.shape)}}) :
          a \in {a0}, b \in {b0}})

\* in-place elementwise binary operation (mul_, div_): the result must fit self
Map2InPlace(Op(_, _), a0, b0) ==
    Sole({IF IsErr(a) THEN a
          ELSE IF IsErr(b) THEN b
          ELSE IF ~Broadcastable(a.shape, b.shape) THEN Err("shape_mismatch")
          ELSE IF BShape(a.shape, b.shape) # a.shape THEN Err("shape_mismatch")
          ELSE Tensor(a.shape, [k \in 1..Len(a.data) |-> Op(a.data[k], At(b, a.shape, k))]) :
          a \in {a0}, b \in {b0}})

Map1(Op(_), a0) ==
    Sole({IF IsErr(a) THEN a ELSE Tensor(a.shape, [k \in 1..Len(a.data) |-> Op(a.data[k])]) :
          a \in {a0}})

TMul(a, b) == Map2(RMul, a, b)
TAdd(a, b) == Map2(RAdd, a, b)
TSub(a, b) == Map2(RSub, a, b)
TDiv(a, b) == Map2(RDiv, a, b)
TMulInPlace(a, b) == Map2InPlace(RMul, a, b)
TDivInPlace(a, b) == Map2InPlace(RDiv, a, b)
TNeg(a) == Map1(RNeg, a)
TPow(a, k) == LET P(x) == RPow(x, k) IN Map1(P, a)

\* the dimensions of s that remain once those in dims are summed away
RECURSIVE Keep(_, _, _)
Keep(s, dims, i) ==
    IF i > Len(s) THEN <<>>
    ELSE IF i \in dims THEN Keep(s, dims, i + 1)
    ELSE <<s[i]>> \o Keep(s, dims, i + 1)

\* offset in the summed tensor that offset q of shape s adds to
RECURSIVE KeepOff(_, _, _, _, _)
KeepOff(q, s, dims, i, stride) ==
    IF i = 0 THEN 0
    ELSE IF i \in dims THEN KeepOff(q \div s[i], s, dims, i - 1, stride)
    ELSE (q % s[i]) * stride + KeepOff(q \div s[i], s, dims, i - 1, stride * s[i])

RECURSIVE SumSel(_, _, _, _)
SumSel(data, offs, o, k) ==
    IF k = 0 THEN R(0)
    ELSE IF offs[k] = o THEN RAdd(SumSel(data, offs, o, k - 1), data[k])
    ELSE SumSel(data, offs, o, k - 1)

\* t.sum(dim=dims), dims 1-based here (torch's dim d is position d + 1)
SumDims(t0, dims) ==
    Sole({IF IsErr(t) THEN t
          ELSE IF \E d \in dims : d > Len(t.shape) THEN Err("dim_out_of_range")
          ELSE Sole({Tensor(os, [o \in 1..Numel(os) |->
                                    SumSel(t.data, offs, o - 1, Len(t.data))]) :
                     os \in {Keep(t.shape, dims, 1)},
                     offs \in {[k \in 1..Len(t.data) |->
                                  KeepOff(k - 1, t.shape, dims, Len(t.shape), 1)]}}) :
          t \in {t0}})

SumAll(t0) == Sole({SumDims(t, 1..Len(t.shape)) : t \in {t0}})

MeanAll(t0) == Sole({TDiv(SumAll(t), Scalar(R(Numel(t.shape)))) : t \in {t0}})

\* t.view(-1, 1, 1)
ViewColumn(t0) ==
    Sole({IF IsErr(t) THEN t ELSE Tensor(<<Len(t.data), 1, 1>>, t.data) : t \in {t0}})

\* t.view(1, -1)
ViewRow(t0) ==
    Sole({IF IsErr(t) THEN t ELSE Tensor(<<1, Len(t.data)>>, t.data) : t \in {t0}})

\* torch.where(cond, a, b) with cond given as a 0/1 tensor
TWhere(cond0, a0, b0) ==
    Sole({IF IsErr(cond) THEN cond
          ELSE IF IsErr(a) THEN a
          ELSE IF IsErr(b) THEN b
          ELSE IF ~Broadcastable(a.shape, b.shape) THEN Err("shape_mismatch")
          ELSE IF ~Broadcastable(cond.shape, BShape(a.shape, b.shape))
               THEN Err("shape_mismatch")
          ELSE Sole({Tensor(s, [k \in 1..Numel(s) |->
                                   IF At(cond, s, k) = R(1) THEN At(a, s, k)
                                                            ELSE At(b, s, k)]) :
                     s \in {BShape(cond.shape, BShape(a.shape, b.shape))}}) :
          cond \in {cond0}, a \in {a0}, b \in {b0}})

\* t == v, as a 0/1 tensor
TEq(t, v) ==
    LET E(x) == IF x = v THEN R(1) ELSE R(0) IN Map1(E, t)

\* torch.sigmoid of a logit given by its odds e^x = <<n, d>>: e^x / (1 + e^x)
Sigmoid(o) == Rat(o[1], o[1] + o[2])

TSigmoid(t) == Map1(Sigmoid, t)

(***************************************************************************)
(* Reduction (SoftDiceLossV1.forward, SoftDiceLossV2.forward)              *)
(***************************************************************************)
\* a mutant of Reduce: a reduction other than 'mean', 'sum', 'none' raises
ReduceStrict(loss, reduction) ==
    IF reduction = "mean" THEN MeanAll(loss)
    ELSE IF reduction = "sum" THEN SumAll(loss)
    ELSE IF reduction = "none" THEN loss
    ELSE Err("unknown_reduction")

Reduce(loss, reduction) ==
    IF reduction = "mean" THEN MeanAll(loss)
    ELSE IF reduction = "sum" THEN SumAll(loss)
    ELSE loss

(***************************************************************************)
(* Binary soft dice loss                                                   *)
(***************************************************************************)
\* SoftDiceLossV1.forward up to the reduction
V1Parts(logits, labels, p, smooth) ==
    Sole({Sole({[probs |-> probs, numer |-> numer, denor |-> denor,
                 loss  |-> TSub(Scalar(R(1)),
                                TDiv(TAdd(TMul(Scalar(R(2)), numer), Scalar(smooth)),
                                     TAdd(denor, Scalar(smooth))))] :
                numer \in {SumDims(TMul(probs, labels), {2, 3})},
                denor \in {SumDims(TAdd(TPow(probs, p), labels), {2, 3})}}) :
          probs \in {TSigmoid(logits)}})

\* a mutant of V2FuncForward: the labels are left out of denor
V2FuncForwardNoLabels(logits, labels, p, smooth) ==
    Sole({Sole({[loss |-> TSub(Scalar(R(1)), TDiv(numer, denor)),
                 vars |-> [probs |-> probs, labels |-> labels, numer |-> numer,
                           denor |-> denor, p |-> p, smooth |-> smooth]] :
                numer \in {TAdd(TMul(Scalar(R(2)), SumDims(TMul(probs, labels), {2, 3})),
                                Scalar(smooth))},
                denor \in {TAdd(SumDims(TPow(probs, p), {2, 3}), Scalar(smooth))}}) :
          probs \in {TSigmoid(logits)}})

\* SoftDiceLossV2Func.forward: the loss and the tuple kept in ctx.vars
V2FuncForward(logits, labels, p, smooth) ==
    Sole({Sole({[loss |-> TSub(Scalar(R(1)), TDiv(numer, denor)),
                 vars |-> [probs |-> probs, labels |-> labels, numer |-> numer,
                           denor |-> denor, p |-> p, smooth |-> smooth]] :
                numer \in {TAdd(TMul(Scalar(R(2)), SumDims(TMul(probs, labels), {2, 3})),
                                Scalar(smooth))},
                denor \in {TAdd(SumDims(TAdd(TPow(probs, p), labels), {2, 3}),
                                Scalar(smooth))}}) :
          probs \in {TSigmoid(logits)}})

\* the tensor N once line 98 has run: N.mul_(2) multiplies N itself
NAfterWhere(N) == TMulInPlace(N, Scalar(R(2)))

\* SoftDiceLossV2Func.backward, statement by statement
\* lines 93-96: M, N and mppi_1
BackwardTerms(v) ==
    Sole({[M |-> M,
           N |-> TSub(ViewColumn(v.denor), TPow(v.probs, v.p)),
           mppi_1 |-> TMulInPlace(TMulInPlace(TPow(v.probs, v.p - 1), Scalar(R(v.p))), M)] :
          M \in {TSub(ViewColumn(v.numer),
                      TMulInPlace(TMul(v.probs, v.labels), Scalar(R(2))))}})

\* lines 97-99: the raw gradient; N is the tensor N as line 98 leaves it
RawGrads(v, mppi_1, N) ==
    TWhere(TEq(v.labels, R(1)),
           TAdd(TSub(TMulInPlace(TPow(v.probs, v.p), Scalar(R(2 * (1 - v.p)))), mppi_1), N),
           TNeg(mppi_1))

\* line 100: the divisor, read from the tensor N as it is then
Divisor(v, N) == TPow(TAdd(TPow(v.probs, v.p), N), 2)

\* lines 100-101
ScaleGrads(v, raw, divisor, grad_output) ==
    TNeg(TMulInPlace(TMulInPlace(TMulInPlace(TDivInPlace(raw, divisor), v.probs),
                                 TSub(Scalar(R(1)), v.probs)),
                     ViewColumn(grad_output)))

\* SoftDiceLossV2Func.backward, statement by statement
V2FuncBackward(v, grad_output) ==
    Sole({Sole({Sole({[M |-> t.M, N |-> N, raw |-> raw, divisor |-> divisor,
                       grads |-> ScaleGrads(v, raw, divisor, grad_output)] :
                      raw \in {RawGrads(v, t.mppi_1, N)},
                      divisor \in {Divisor(v, N)}}) :
                N \in {NAfterWhere(t.N)}}) :
          t \in {BackwardTerms(v)}})

(***************************************************************************)
(* Multi-class soft dice losses                                            *)
(***************************************************************************)
\* ignore = label.data.cpu() == self.ignore_lb
IgnoreMask(label, ignore_lb) == TEq(label, R(ignore_lb))

\* label = label.clone(); label[ignore] = 0 : the function's own label tensor
MaskedLabel(label, ignore) ==
    Tensor(label.shape,
           [k \in 1..Len(label.data) |-> IF ignore.data[k] = R(1) THEN R(0) ELSE label.data[k]])

\* position in label (N, H, W) of the pixel of element q (0-based) of (N, C, H, W)
PixelOf(q, shape) ==
    LET u == Unravel(q, shape)
    IN  1 + (u[1] * shape[3] + u[3]) * shape[4] + u[4]

\* torch.zeros_like(logits).scatter_(1, label.unsqueeze(1), 1)
ScatterOneHot(logits, label0) ==
  Sole({
    IF \E k \in 1..Len(label.data) :
           ~(label.data[k][2] = 1 /\ label.data[k][1] \in 0..(logits.shape[2] - 1))
    THEN Err("index_out_of_range")
    ELSE Tensor(logits.shape,
                [k \in 1..Len(logits.data) |->
                    IF label.data[PixelOf(k - 1, logits.shape)]
                           = R(Unravel(k - 1, logits.shape)[2])
                    THEN R(1) ELSE R(0)]) :
    label \in {label0}})

\* ignore.nonzero(): the index rows (n, h, w) of the ignored pixels
NonZero(ignore) ==
    {Unravel(k - 1, ignore.shape) : k \in {j \in 1..Len(ignore.data) : ignore.data[j] = R(1)}}

\* a mutant of ZeroIgnored: the ignored pixels keep their scattered 1
ZeroIgnoredNone(one_hot0, nz0) == one_hot0

\* lb_one_hot[[a, torch.arange(C), *b]] = 0 with a, *b the columns of nonzero()
ZeroIgnored(one_hot0, nz0) ==
    Sole({IF IsErr(one_hot) THEN one_hot
          ELSE Tensor(one_hot.shape,
                      [k \in 1..Len(one_hot.data) |->
                          IF \E r \in nz : \E c \in 0..(one_hot.shape[2] - 1) :
                                 Unravel(k - 1, one_hot.shape) = <<r[1], c, r[2], r[3]>>
                          THEN R(0) ELSE one_hot.data[k]]) :
          one_hot \in {one_hot0}, nz \in {nz0}})

\* lines 126-135 and 172-181
OneHot(logits, label, ignore_lb) ==
    Sole({ZeroIgnored(ScatterOneHot(logits, MaskedLabel(label, ignore)), NonZero(ignore)) :
          ignore \in {IgnoreMask(label, ignore_lb)}})

\* a mutant of ClassSums: the one-hot term is subtracted in denom
ClassSumsDenomMinus(logits, lb_one_hot, p, weight) ==
    Sole({Sole({IF weight.given
                THEN [numer |-> TMul(numer, ViewRow(weight.t)),
                      denom |-> TMul(denom, ViewRow(weight.t))]
                ELSE [numer |-> numer, denom |-> denom] :
                numer \in {SumDims(TMul(probs, lb_one_hot), {3, 4})},
                denom \in {SumDims(TSub(TPow(probs, p), TPow(lb_one_hot, p)), {3, 4})}}) :
          probs \in {TSigmoid(logits)}})

\* numer and denom per (sample, class), weighted when a weight is configured
ClassSums(logits, lb_one_hot, p, weight) ==
    Sole({Sole({IF weight.given
                THEN [numer |-> TMul(numer, ViewRow(weight.t)),
                      denom |-> TMul(denom, ViewRow(weight.t))]
                ELSE [numer |-> numer, denom |-> denom] :
                numer \in {SumDims(TMul(probs, lb_one_hot), {3, 4})},
                denom \in {SumDims(TAdd(TPow(probs, p), TPow(lb_one_hot, p)), {3, 4})}}) :
          probs \in {TSigmoid(logits)}})

DiceQuotient(numer, denom, smooth) ==
    TSub(Scalar(R(1)),
         TDiv(TAdd(TMul(Scalar(R(2)), numer), Scalar(smooth)), TAdd(denom, Scalar(smooth))))

\* GeneralizedSoftDiceLoss.forward up to the reduction
GeneralizedParts(logits, label, p, smooth, weight, ignore_lb) ==
    Sole({Sole({Sole({[lb_one_hot |-> oh, numer |-> numer, denom |-> denom,
                       loss |-> DiceQuotient(numer, denom, smooth)] :
                      numer \in {SumDims(cs.numer, {2})},
                      denom \in {SumDims(cs.denom, {2})}}) :
                cs \in {ClassSums(logits, oh, p, weight)}}) :
          oh \in {OneHot(logits, label, ignore_lb)}})

\* BatchSoftDiceLoss.forward
BatchParts(logits, label, p, smooth, weight, ignore_lb) ==
    Sole({Sole({Sole({[lb_one_hot |-> oh, numer |-> numer, denom |-> denom,
                       loss |-> DiceQuotient(numer, denom, smooth)] :
                      numer \in {SumAll(cs.numer)},
                      denom \in {SumAll(cs.denom)}}) :
                cs \in {ClassSums(logits, oh, p, weight)}}) :
          oh \in {OneHot(logits, label, ignore_lb)}})

\* the reduction of GeneralizedSoftDiceLoss.forward: only 'mean' is acted on
ReduceMeanOnly(loss, reduction) ==
    IF reduction = "mean" THEN MeanAll(loss) ELSE loss

(***************************************************************************)
(* Bounds and input alphabets of the model                                 *)
(***************************************************************************)
\* largest number of elements of a logits tensor
MaxPixels == 2

\* largest exponent p
MaxP == 2

\* largest number of SoftDiceLossV2Func.apply invocations in one run
MaxCalls == 2

\* default of ignore_lb
DefaultIgnoreLb == 255

\* logits, each given by its odds e^x: x = 0 and x = ln 3
LogitSet == {<<1, 1>>, <<3, 1>>}

SmoothSet == {R(1), R(2)}

Reductions == {"mean", "sum", "none", "bogus"}

WeightSet == {R(-2), R(0), R(2)}

\* the upstream gradient value handed to backward, one per sample
GradSet == {Rat(1, 2)}

\* the shape of the specification's concrete scenario: N = 1, H = W = 2
ScenarioShape == <<1, 2, 2>>

Shapes(rank, n) ==
    {s \in [1..rank -> 1..n] : Numel(s) <= n}

TensorsOver(shape, values) ==
    {Tensor(shape, f) : f \in [1..Numel(shape) -> values]}

NoWeight == [given |-> FALSE, t |-> Err("None")]

\* binary task: logits and labels of one shape (N, H, W), labels 0/1
BinaryInputs(shapes) ==
    UNION {TensorsOver(s, LogitSet) \X TensorsOver(s, {R(0), R(1)}) : s \in shapes}

BinaryConfigs(ps, smooths, reductions) ==
    [p : ps, smooth : smooths, reduction : reductions,
     weight : {NoWeight}, ignore_lb : {DefaultIgnoreLb}]

\* multi-class task: logits (N, C, H, W), labels (N, H, W) holding a class id
\* or the ignore sentinel
LabelValues(C, ignore_lb) == {R(c) : c \in 0..(C - 1)} \cup {R(ignore_lb)}

MultiInputs(shapes, ignore_lb) ==
    UNION {TensorsOver(s, LogitSet)
               \X TensorsOver(<<s[1], s[3], s[4]>>, LabelValues(s[2], ignore_lb)) :
           s \in shapes}

Weights(C) == {NoWeight} \cup {[given |-> TRUE, t |-> w] : w \in TensorsOver(<<C>>, WeightSet)}

\* label tensors of any rank up to 4, for calls that break the shape contract
AnyLabels(n) ==
    UNION {TensorsOver(s, {R(0), R(1)}) : s \in UNION {Shapes(r, n) : r \in 0..4}}

(***************************************************************************)
(* State                                                                   *)
(***************************************************************************)
VARIABLES
    self,      \* the loss module called: p, smooth, reduction, weight, ignore_lb
    logits,    \* the caller's logits tensor
    labels,    \* the caller's label tensor
    out,       \* what the last forward call returned, with its intermediates
    ctxs,      \* the ctx objects of SoftDiceLossV2Func.apply: ctx.vars of each
    calls,     \* the apply invocations: the ctx each one's graph node holds,
               \* and the tuple that invocation stored
    bw         \* what the last SoftDiceLossV2Func.backward read and returned, and
               \* how many apply invocations had been made when it ran

vars == <<self, logits, labels, out, ctxs, calls, bw>>

NA == Err("n/a")

NoOut ==
    [cls |-> "none", loss |-> NA, raw |-> NA, numer |-> NA, denor |-> NA,
     lb_one_hot |-> NA]

NoVars ==
    [probs |-> NA, labels |-> NA, numer |-> NA, denor |-> NA, p |-> 0, smooth |-> R(0)]

NoBw ==
    [call |-> 0, after |-> 0, grad_output |-> NA, vars |-> NoVars, N |-> NA,
     divisor |-> NA, grads |-> NA]

(***************************************************************************)
(* Operations                                                              *)
(***************************************************************************)
\* criteria(logits, labels) with criteria a SoftDiceLossV1
V1Forward ==
    /\ Len(logits.shape) = 3
    /\ \E parts \in {V1Parts(logits, labels, self.p, self.smooth)} :
           out' = [cls |-> "V1", loss |-> Reduce(parts.loss, self.reduction),
                   raw |-> parts.loss, numer |-> parts.numer, denor |-> parts.denor,
                   lb_one_hot |-> NA]
    /\ UNCHANGED <<self, logits, labels, ctxs, calls, bw>>

\* a mutant of AllocCtx: one ctx shared by every invocation
AllocCtxShared(cs) == 1

\* Function.apply hands forward a ctx object of its own
AllocCtx(cs) == Len(cs) + 1

\* ctx.vars = probs, labels, numer, denor, p, smooth
StoreVars(cs, c, v) ==
    IF c > Len(cs) THEN Append(cs, v) ELSE [cs EXCEPT ![c] = v]

\* the forward of SoftDiceLossV2: apply runs SoftDiceLossV2Func.forward on a
\* new ctx, and the returned tensor is reduced
V2Call(f, reduction) ==
    [cls |-> "V2", loss |-> Reduce(f.loss, reduction), raw |-> f.loss,
     numer |-> f.vars.numer, denor |-> f.vars.denor, lb_one_hot |-> NA]

\* loss = criteria(logits, labels) with criteria a SoftDiceLossV2: the caller
\* rebinds its one loss variable, and the graph of the previous call is dropped
V2Forward ==
    /\ Len(logits.shape) = 3
    /\ \E f \in {V2FuncForward(logits, labels, self.p, self.smooth)}, c \in {AllocCtx(ctxs)} :
           /\ out' = V2Call(f, self.reduction)
           /\ IF IsErr(f.loss)
              THEN UNCHANGED <<ctxs, calls>>
              ELSE /\ ctxs' = <<StoreVars(ctxs, c, f.vars)[c]>>
                   /\ calls' = <<[ctx |-> 1, vars |-> f.vars]>>
    /\ UNCHANGED <<self, logits, labels, bw>>

\* losses.append(criteria(logits, labels)): the caller keeps the earlier losses,
\* and with them their graphs, alive
V2ForwardKeep ==
    /\ Len(logits.shape) = 3
    /\ Len(calls) < MaxCalls
    /\ \E f \in {V2FuncForward(logits, labels, self.p, self.smooth)}, c \in {AllocCtx(ctxs)} :
           /\ out' = V2Call(f, self.reduction)
           /\ IF IsErr(f.loss)
              THEN UNCHANGED <<ctxs, calls>>
              ELSE /\ ctxs' = StoreVars(ctxs, c, f.vars)
                   /\ calls' = Append(calls, [ctx |-> c, vars |-> f.vars])
    /\ UNCHANGED <<self, logits, labels, bw>>

\* loss.backward() reaching the graph node of invocation i with grad_output g
V2Backward ==
    \E i \in 1..Len(calls) :
        \E g \in TensorsOver(calls[i].vars.numer.shape, GradSet) :
            \E v \in {ctxs[calls[i].ctx]} : \E b \in {V2FuncBackward(v, g)} :
                /\ bw' = [call |-> i, after |-> Len(calls), grad_output |-> g,
                          vars |-> v, N |-> b.N, divisor |-> b.divisor,
                          grads |-> b.grads]
                /\ UNCHANGED <<self, logits, labels, out, ctxs, calls>>

\* a mutant of LabelAfterForward: label[ignore] = 0 written without label.clone()
LabelWrittenThrough(label, ignore_lb) ==
    MaskedLabel(label, IgnoreMask(label, ignore_lb))

\* the caller's label tensor after forward: label[ignore] = 0 lands in the clone
LabelAfterForward(label, ignore_lb) == label

\* criteria(logits, label) with criteria a GeneralizedSoftDiceLoss
GeneralizedForward ==
    /\ Len(logits.shape) = 4
    /\ \E parts \in {GeneralizedParts(logits, labels, self.p, self.smooth, self.weight,
                                        self.ignore_lb)} :
           out' = [cls |-> "Generalized",
                   loss |-> ReduceMeanOnly(parts.loss, self.reduction),
                   raw |-> parts.loss, numer |-> parts.numer, denor |-> parts.denom,
                   lb_one_hot |-> parts.lb_one_hot]
    /\ labels' = LabelAfterForward(labels, self.ignore_lb)
    /\ UNCHANGED <<self, logits, ctxs, calls, bw>>

\* criteria(logits, label) with criteria a BatchSoftDiceLoss
BatchForward ==
    /\ Len(logits.shape) = 4
    /\ \E parts \in {BatchParts(logits, labels, self.p, self.smooth, self.weight,
                                  self.ignore_lb)} :
           out' = [cls |-> "Batch", loss |-> parts.loss,
                   raw |-> parts.loss, numer |-> parts.numer, denor |-> parts.denom,
                   lb_one_hot |-> parts.lb_one_hot]
    /\ labels' = LabelAfterForward(labels, self.ignore_lb)
    /\ UNCHANGED <<self, logits, ctxs, calls, bw>>

\* criteria = SoftDiceLossV2(p, smooth, reduction): another module instance
Construct ==
    /\ \E c \in BinaryConfigs({1, 2}, {R(1)}, {"none"}) : self' = c /\ c # self
    /\ UNCHANGED <<logits, labels, out, ctxs, calls, bw>>

\* the training loop's next iteration: new logits and labels
NextBatch ==
    /\ \E in \in BinaryInputs({<<1, 1, 1>>}) :
          /\ logits' = in[1]
          /\ labels' = in[2]
          /\ <<logits', labels'>> # <<logits, labels>>
    /\ UNCHANGED <<self, out, ctxs, calls, bw>>

(***************************************************************************)
(* Specifications                                                          *)
(***************************************************************************)
InitRest ==
    /\ out = NoOut
    /\ ctxs = <<>>
    /\ calls = <<>>
    /\ bw = NoBw

InitBinary ==
    /\ self \in BinaryConfigs(1..MaxP, SmoothSet, Reductions)
    /\ \E in \in BinaryInputs(Shapes(3, MaxPixels)) : logits = in[1] /\ labels = in[2]
    /\ InitRest

InitScenario ==
    /\ self \in BinaryConfigs(1..MaxP, {R(1)}, {"mean"})
    /\ \E in \in BinaryInputs({ScenarioShape}) : logits = in[1] /\ labels = in[2]
    /\ InitRest

InitMulti ==
    /\ \E in \in MultiInputs(Shapes(4, MaxPixels), DefaultIgnoreLb) :
          /\ logits = in[1]
          /\ labels = in[2]
          /\ self \in [p : 1..MaxP, smooth : {R(1)}, reduction : {"mean", "none"},
                       weight : Weights(in[1].shape[2]), ignore_lb : {DefaultIgnoreLb}]
    /\ InitRest

Init == InitBinary \/ InitScenario \/ InitMulti

Next ==
    \/ V1Forward
    \/ V2Forward
    \/ GeneralizedForward
    \/ BatchForward

\* the four losses called on inputs that keep the documented shapes
Spec == Init /\ [][Next]_vars

InitGrad ==
    /\ self \in BinaryConfigs({1, 2}, {R(1)}, {"none"})
    /\ \E in \in BinaryInputs({<<1, 1, 1>>}) : logits = in[1] /\ labels = in[2]
    /\ InitRest

NextGrad ==
    \/ Construct
    \/ NextBatch
    \/ V2ForwardKeep
    \/ V2Backward

\* a training loop around SoftDiceLossV2: forward calls and their backward calls
SpecGrad == InitGrad /\ [][NextGrad]_vars

InitShape ==
    /\ self \in BinaryConfigs({1}, {R(1)}, {"mean"})
    /\ \E s \in Shapes(3, MaxPixels) :
          /\ logits \in TensorsOver(s, LogitSet)
          /\ labels \in AnyLabels(MaxPixels + 1)
    /\ InitRest

NextShape ==
    \/ V1Forward
    \/ V2Forward

\* the binary losses called with labels of any shape
SpecShape == InitShape /\ [][NextShape]_vars

(***************************************************************************)
(* Properties: reference formulas, written from the mathematics the claims *)
(* state and not from the operators above                                  *)
(***************************************************************************)
\* the elements of sample n (1-based) of a tensor of shape (N, H, W)
PixelsOf(n, shape) ==
    ((n - 1) * shape[2] * shape[3] + 1)..(n * shape[2] * shape[3])

\* the sum of f over the index set S
RECURSIVE SumOver(_, _)
SumOver(f, S) ==
    IF S = {} THEN R(0)
    ELSE LET k == CHOOSE x \in S : TRUE
         IN  RAdd(f[k], SumOver(f, S \ {k}))

\* sigmoid(x) = 1 / (1 + e^(-x)) for the logit whose odds e^x are o
RefProb(o) == RDiv(R(1), RAdd(R(1), RDiv(R(o[2]), R(o[1]))))

(***************************************************************************)
(* The analytic gradient (SpecGrad)                                        *)
(***************************************************************************)
\* the sample (1-based) that element k of a tensor of shape (N, H, W) is in
SampleOf(k, shape) == ((k - 1) \div (shape[2] * shape[3])) + 1

\* C9: when grads.div_ runs, N holds denor[n] - probs^p at every pixel, so the
\* divisor (probs^p + N)^2 is denor[n]^2 at every pixel of sample n
C9_DivisorIsDenomSquared ==
    bw.call # 0 =>
        \A k \in 1..Len(bw.vars.probs.data) :
            LET n == SampleOf(k, bw.vars.probs.shape)
                denom == bw.vars.denor.data[n]
                pp == RPow(bw.vars.probs.data[k], bw.vars.p)
            IN  /\ bw.N.data[k] = RSub(denom, pp)
                /\ bw.divisor.data[k] = RMul(denom, denom)

\* C1: backward returns, at every pixel (n,h,w), the derivative of the forward
\* formula scaled by g[n]:
\* -g[n] * (2*Y*denom[n] - p*probs^(p-1)*numer[n]) / denom[n]^2 * probs*(1-probs)
C1_GradientIsDerivative ==
    bw.call # 0 =>
        /\ bw.grads.shape = bw.vars.probs.shape
        /\ \A k \in 1..Len(bw.vars.probs.data) :
            LET n == SampleOf(k, bw.vars.probs.shape)
                numer == bw.vars.numer.data[n]
                denom == bw.vars.denor.data[n]
                pr == bw.vars.probs.data[k]
                Y == bw.vars.labels.data[k]
                g == bw.grad_output.data[n]
                top == RSub(RMul(RMul(R(2), Y), denom),
                            RMul(RMul(R(bw.vars.p), RPow(pr, bw.vars.p - 1)), numer))
            IN  bw.grads.data[k]
                    = RMul(RMul(RNeg(g), RDiv(top, RMul(denom, denom))),
                           RMul(pr, RSub(R(1), pr)))

\* C7: every apply invocation still finds, in the ctx its graph node holds, the
\* tuple its own forward stored, and a backward has read the tuple of the
\* invocation it belongs to
C7_BackwardReadsOwnCache ==
    /\ \A i \in 1..Len(calls) :
           /\ calls[i].ctx \in 1..Len(ctxs)
           /\ ctxs[calls[i].ctx] = calls[i].vars
    /\ bw.call # 0 => bw.vars = calls[bw.call].vars

\* a backward of the first invocation that ran after a second forward had stored
\* a different tuple
C7_Witness ==
    /\ bw.call = 1
    /\ bw.after = 2
    /\ Len(calls) = 2
    /\ calls[1].vars # calls[2].vars
    /\ bw.vars = calls[1].vars

(***************************************************************************)
(* The forward formula and the reduction (Spec)                            *)
(***************************************************************************)
\* probs^p at element k of the logits, and the label there
RefProbPow(k) == RPow(RefProb(logits.data[k]), self.p)

RefProbTimesLabel(k) == RMul(RefProb(logits.data[k]), labels.data[k])

\* numer[n] = 2 * sum_{h,w}(probs * labels) + smooth
RefNumer(n) ==
    RAdd(RMul(R(2), SumOver([k \in 1..Len(logits.data) |-> RefProbTimesLabel(k)],
                            PixelsOf(n, logits.shape))),
         self.smooth)

\* denom[n] = sum_{h,w}(probs^p + labels) + smooth
RefDenom(n) ==
    RAdd(SumOver([k \in 1..Len(logits.data) |-> RAdd(RefProbPow(k), labels.data[k])],
                 PixelsOf(n, logits.shape)),
         self.smooth)

RefLoss(n) == RSub(R(1), RDiv(RefNumer(n), RefDenom(n)))

\* the specification's scenario: N = 1, H = W = 2, all logits 0 (probs 1/2),
\* all labels 1, p = 1, smooth = 1
IsScenario ==
    /\ logits = Full(ScenarioShape, <<1, 1>>)
    /\ labels = Full(ScenarioShape, R(1))
    /\ self.p = 1
    /\ self.smooth = R(1)

\* C2: the binary forward returns the length-N vector
\* loss[n] = 1 - (2*sum(probs*labels) + smooth) / (sum(probs^p + labels) + smooth),
\* SoftDiceLossV1 and SoftDiceLossV2Func return the same vector for the same
\* inputs, and the scenario yields numer = 5, denom = 7, loss = 1 - 5/7
C2_ForwardFormula ==
    out.cls \in {"V1", "V2"} =>
        /\ out.raw = Tensor(<<logits.shape[1]>>,
                            [n \in 1..logits.shape[1] |-> RefLoss(n)])
        /\ V1Parts(logits, labels, self.p, self.smooth).loss
               = V2FuncForward(logits, labels, self.p, self.smooth).loss
        /\ IsScenario =>
               /\ out.raw.data = <<Rat(2, 7)>>
               /\ out.cls = "V2" =>
                      out.numer.data = <<R(5)>> /\ out.denor.data = <<R(7)>>
               /\ out.cls = "V1" =>
                      /\ RAdd(RMul(R(2), out.numer.data[1]), self.smooth) = R(5)
                      /\ RAdd(out.denor.data[1], self.smooth) = R(7)

\* the scenario evaluated by SoftDiceLossV2Func.forward
C2_Witness ==
    /\ out.cls = "V2"
    /\ IsScenario
    /\ out.numer.data = <<R(5)>>
    /\ out.denor.data = <<R(7)>>
    /\ out.raw.data = <<Rat(2, 7)>>

\* C6: on a loss vector v of length N, 'mean' returns sum(v)/N, 'sum' returns
\* sum(v), and every other setting returns v unchanged and raises nothing
C6_Reduction ==
    out.cls \in {"V1", "V2"} /\ ~IsErr(out.raw) =>
        LET N == Len(out.raw.data)
            total == SumOver(out.raw.data, 1..N)
        IN  /\ self.reduction = "mean" => out.loss = Scalar(RDiv(total, R(N)))
            /\ self.reduction = "sum" => out.loss = Scalar(total)
            /\ self.reduction \notin {"mean", "sum"} =>
                   out.loss = out.raw /\ ~IsErr(out.loss)

\* an unrecognised reduction string on a vector of two different losses
C6_Witness ==
    /\ out.cls = "V2"
    /\ self.reduction = "bogus"
    /\ Len(out.raw.data) = 2
    /\ out.raw.data[1] # out.raw.data[2]
    /\ out.loss = out.raw

(***************************************************************************)
(* The multi-class losses (Spec)                                           *)
(***************************************************************************)
IsMulti == out.cls \in {"Generalized", "Batch"}

\* row-major position of (n, c, h, w), 0-based coordinates, in shape (N, C, H, W)
RefPos4(sh, n, c, h, w) == ((n * sh[2] + c) * sh[3] + h) * sh[4] + w + 1

\* row-major position of (n, h, w) in the label shape (N, H, W)
RefPos3(sh, n, h, w) == (n * sh[3] + h) * sh[4] + w + 1

\* C3: at every pixel (n,h,w) the channels of lb_one_hot sum to 0 when the label
\* is ignore_lb, and otherwise to 1 with the single 1 at channel label[n,h,w]
C3_OneHot ==
    IsMulti =>
        /\ out.lb_one_hot.shape = logits.shape
        /\ \A n \in 0..(logits.shape[1] - 1), h \in 0..(logits.shape[3] - 1),
              w \in 0..(logits.shape[4] - 1) :
              LET lab == labels.data[RefPos3(logits.shape, n, h, w)]
                  chan == [c \in 0..(logits.shape[2] - 1) |->
                              out.lb_one_hot.data[RefPos4(logits.shape, n, c, h, w)]]
              IN  /\ \A c \in DOMAIN chan : chan[c] \in {R(0), R(1)}
                  /\ SumOver(chan, DOMAIN chan)
                         = IF lab = R(self.ignore_lb) THEN R(0) ELSE R(1)
                  /\ lab # R(self.ignore_lb) => chan[lab[1]] = R(1)

\* a label tensor with an ignored pixel and a labelled one
C3_Witness ==
    /\ IsMulti
    /\ \E k \in 1..Len(labels.data) : labels.data[k] = R(self.ignore_lb)
    /\ \E k \in 1..Len(labels.data) : labels.data[k] # R(self.ignore_lb)
    /\ \E k \in 1..Len(out.lb_one_hot.data) : out.lb_one_hot.data[k] = R(1)

\* the loss the class of the last call returns on the logits l2
LossOn(l2) ==
    IF out.cls = "Generalized"
    THEN ReduceMeanOnly(GeneralizedParts(l2, labels, self.p, self.smooth, self.weight,
                                         self.ignore_lb).loss,
                        self.reduction)
    ELSE BatchParts(l2, labels, self.p, self.smooth, self.weight, self.ignore_lb).loss

\* l2 has the logits of the state at every pixel whose label is not ignore_lb
SameOutsideIgnored(l2) ==
    \A n \in 0..(logits.shape[1] - 1), c \in 0..(logits.shape[2] - 1),
       h \in 0..(logits.shape[3] - 1), w \in 0..(logits.shape[4] - 1) :
        labels.data[RefPos3(logits.shape, n, h, w)] # R(self.ignore_lb) =>
            l2.data[RefPos4(logits.shape, n, c, h, w)]
                = logits.data[RefPos4(logits.shape, n, c, h, w)]

\* C4: two inputs with the same labels that differ only in the logits at pixels
\* labelled ignore_lb get the same multi-class loss
C4_IgnoredPixelsExcluded ==
    IsMulti =>
        \A l2 \in TensorsOver(logits.shape, LogitSet) :
            SameOutsideIgnored(l2) => LossOn(l2) = out.loss

\* the denominator of every loss quotient of the last call is > 0
DenominatorsPositive ==
    \A k \in 1..Len(out.denor.data) :
        RPos(IF out.cls = "V2" THEN out.denor.data[k]
             ELSE RAdd(out.denor.data[k], self.smooth))

\* C10 as stated: with smooth > 0 the denominator of the loss quotient is > 0 in
\* every forward evaluation, for any configured per-class weight vector
C10_DenominatorPositive ==
    out.cls # "none" /\ RPos(self.smooth) => DenominatorsPositive

WeightsNonNegative ==
    self.weight.given =>
        \A c \in 1..Len(self.weight.t.data) : ~RLess(self.weight.t.data[c], R(0))

\* C10 amended: with smooth > 0 the denominator of the loss quotient is > 0 in
\* every forward evaluation whose per-class weights, if configured, are all >= 0
C10_DenominatorPositiveNonNegWeights ==
    out.cls # "none" /\ RPos(self.smooth) /\ WeightsNonNegative =>
        ~IsErr(out.denor) /\ DenominatorsPositive

\* a weighted multi-class evaluation with an ignored pixel
C10_Witness ==
    /\ IsMulti
    /\ self.weight.given
    /\ WeightsNonNegative
    /\ \E k \in 1..Len(labels.data) : labels.data[k] = R(self.ignore_lb)
    /\ DenominatorsPositive

\* C8: a forward call leaves the caller's logits and labels as they were, and a
\* call that follows a call of the same class on them returns the same loss
C8_ForwardTwice ==
    [][/\ logits' = logits
       /\ labels' = labels
       /\ (out.cls # "none" /\ out'.cls = out.cls) => out'.loss = out.loss]_vars

\* a multi-class forward has run and the caller's labels still hold the sentinel
C8_Witness ==
    /\ IsMulti
    /\ ~IsErr(out.loss)
    /\ \E k \in 1..Len(labels.data) : labels.data[k] = R(self.ignore_lb)
    /\ \A k \in 1..Len(labels.data) :
           labels.data[k] = R(self.ignore_lb) \/ labels.data[k] = R(0)

(***************************************************************************)
(* Label shapes the binary losses are not documented for (SpecShape)       *)
(***************************************************************************)
IsBinary == out.cls \in {"V1", "V2"}

\* the i-th size of s counted from the last one
FromEnd(s, i) == s[Len(s) - i + 1]

\* the two shapes, aligned at their last dimension, have at every position
\* that both have either the same size or a size of 1
RefCompatible(s, t) ==
    \A i \in 1..(IF Len(s) < Len(t) THEN Len(s) ELSE Len(t)) :
        FromEnd(s, i) = FromEnd(t, i) \/ FromEnd(s, i) = 1 \/ FromEnd(t, i) = 1

ShapeMismatchRaised == IsErr(out.loss) /\ out.loss.err = "shape_mismatch"

\* C5 as stated: whenever the shapes of logits and labels differ, broadcast-
\* compatible or not, the binary forward ends in a shape-mismatch error and
\* returns no loss
C5_ShapeMismatchRaises ==
    IsBinary /\ logits.shape # labels.shape => ShapeMismatchRaised

\* C5 amended: when the shapes of logits and labels differ, the binary forward
\* ends in a shape-mismatch error exactly when the two shapes are not
\* broadcast-compatible; for broadcast-compatible shapes it returns a loss
C5_ShapeMismatchIffIncompatible ==
    IsBinary /\ logits.shape # labels.shape =>
        IF RefCompatible(logits.shape, labels.shape)
        THEN /\ ~IsErr(out.loss)
             /\ \A k \in 1..Len(out.loss.data) : IsFinite(out.loss.data[k])
        ELSE /\ ShapeMismatchRaised
             /\ calls = <<>>

\* labels of shape (H, W) against logits of shape (N, H, W): a loss is returned
C5_Witness ==
    /\ IsBinary
    /\ logits.shape = <<1, 1, 2>>
    /\ labels.shape = <<1, 2>>
    /\ ~IsErr(out.loss)

=============================================================================
